---- MODULE Spec2Model ----
(***************************************************************************)
(* Model of the AI debate video processor (src/video-processor/index.js):  *)
(* the POST /processDebateVideo handler and the seven pipeline stages it   *)
(* awaits, for several requests served by one Node.js process.  Every      *)
(* `await` of the handler is a point where the event loop may run another  *)
(* request; the code between two awaits is one atomic action.              *)
(***************************************************************************)
EXTENDS Integers, Sequences, FiniteSets, TLC

\* Number of requests the process serves in one behaviour.
NumReqs == 2

\* Number of temp-file deletions that may fail in one behaviour.
MaxUnlinkFailures == 1

Reqs == 1..NumReqs

(***************************************************************************)
(* JSON values of the request body and JavaScript truthiness.              *)
(***************************************************************************)
Undefined == [t |-> "undefined", v |-> <<>>]
Str(s) == [t |-> "string", v |-> s]
\* a JSON number, held as its decimal digits
Num(d) == [t |-> "number", v |-> d]

\* !x of JavaScript: undefined, "" and 0 are falsy
Falsy(x) == \/ x.t = "undefined"
            \/ x.t = "string" /\ x.v = <<>>
            \/ x.t = "number" /\ x.v = <<"0">>

\* `${x}` of a template literal: the characters of the value, its type forgotten
TemplateString(x) == IF x.t = "undefined" THEN <<"undefined">> ELSE x.v

VideoUrls == {Undefined, Str(<<"u">>)}
FileIds == {Num(<<"0">>), Str(<<"a">>), Str(<<".", "/", "a">>), Num(<<"7">>), Str(<<"7">>)}
Emails == {Str(<<>>), Str(<<"e">>)}
Bodies == [videoUrl : VideoUrls, fileId : FileIds, userEmail : Emails]
NoBody == [videoUrl |-> Undefined, fileId |-> Undefined, userEmail |-> Undefined]

\* the guard of the handler's first `if`
MissingRequiredNoEmail(b) == Falsy(b.videoUrl) \/ Falsy(b.fileId)
MissingRequired(b) == Falsy(b.videoUrl) \/ Falsy(b.fileId) \/ Falsy(b.userEmail)

(***************************************************************************)
(* Temp files.  A path is the token sequence of the template literal; the  *)
(* file it names is found by resolving the path's components.              *)
(***************************************************************************)
Kinds == {"_input.mp4", "_audio.wav", "_response.wav", "_captions.mp4", "_final.mp4"}

TempPath(fileId, kind) == <<"/", "tmp", "/">> \o TemplateString(fileId) \o <<kind>>

RECURSIVE Components(_, _, _)
\* the components of a path: the maximal runs of tokens between "/"
Components(p, i, cur) ==
    IF i > Len(p) THEN (IF cur = <<>> THEN <<>> ELSE <<cur>>)
    ELSE IF p[i] = "/"
         THEN (IF cur = <<>> THEN <<>> ELSE <<cur>>) \o Components(p, i + 1, <<>>)
         ELSE Components(p, i + 1, Append(cur, p[i]))

RECURSIVE Walk(_, _, _)
\* path resolution: "." stays in the directory, ".." goes to the parent
Walk(cs, i, acc) ==
    IF i > Len(cs) THEN acc
    ELSE IF cs[i] = <<".">> THEN Walk(cs, i + 1, acc)
    ELSE IF cs[i] = <<".", ".">>
         THEN Walk(cs, i + 1, IF acc = <<>> THEN acc ELSE SubSeq(acc, 1, Len(acc) - 1))
         ELSE Walk(cs, i + 1, Append(acc, cs[i]))

\* the file a path names
Resolve(p) == Walk(Components(p, 1, <<>>), 1, <<>>)

File(fileId, kind) == Resolve(TempPath(fileId, kind))

(***************************************************************************)
(* Texts.                                                                  *)
(***************************************************************************)
\* mockTranscription's fixed string, abbreviated
MockTranscription == <<"T", "h", "i", "s", ".">>

\* texts the generative API may return
GenTexts == { <<>>, <<"A", ".", " ", "B", "!", " ", "C", "?">> }

Terminators == {".", "!", "?"}
WhiteSpace == {" "}

RECURSIVE SplitFrom(_, _, _)
\* text.split(/[.!?]+/): the fragments between maximal runs of terminators,
\* an empty first or last fragment included
SplitFrom(s, i, cur) ==
    IF i > Len(s) THEN <<cur>>
    ELSE IF s[i] \in Terminators
         THEN IF i > 1 /\ s[i - 1] \in Terminators
              THEN SplitFrom(s, i + 1, cur)
              ELSE <<cur>> \o SplitFrom(s, i + 1, <<>>)
         ELSE SplitFrom(s, i + 1, Append(cur, s[i]))

RECURSIVE TrimLeft(_)
TrimLeft(s) == IF s # <<>> /\ Head(s) \in WhiteSpace THEN TrimLeft(Tail(s)) ELSE s

RECURSIVE TrimRight(_)
TrimRight(s) ==
    IF s # <<>> /\ s[Len(s)] \in WhiteSpace THEN TrimRight(SubSeq(s, 1, Len(s) - 1)) ELSE s

\* String.prototype.trim
Trim(s) == TrimRight(TrimLeft(s))

\* the sentences of createAnimatedCaptions
SplitSentences(text) == SelectSeq(SplitFrom(text, 1, <<>>), LAMBDA s : Len(Trim(s)) > 0)

(***************************************************************************)
(* Errors.                                                                 *)
(***************************************************************************)
\* diagnostics of the external tools and APIs
Diags == {"E1", "E2"}
ENOENT == "ENOENT"

\* new Error(`${prefix}: ${error.message}`)
WrapNoMessage(prefix, message) == <<prefix>>
Wrap(prefix, message) == <<prefix, ": ", message>>

VARIABLES
    pc,            \* pc[r]: the await the handler of request r is suspended at
    body,          \* body[r]: req.body
    transcription, \* the handler's locals
    aiResponse,
    sentences,     \* the sentences handed to createCaptionsVideo
    finalVideoUrl,
    responses,     \* responses[r]: the HTTP responses sent for r, in order
    fs,            \* the files of /tmp: file |-> the request that wrote it
    bucket,        \* the objects of the bucket: name |-> [public, owner]
    stageStarted,  \* history: the stages r has started
    stageDone,     \* history: the stages r has completed
    stageFailed,   \* history: the stage that threw (0: none)
    diag,          \* history: the message of the error the failing call raised
    calls,         \* history: calls[r][c]: how often r invoked external call c
    notifyFailed,  \* history: the notification step threw
    lastStarter,   \* history: the request that started a stage most recently
    unlinkFailures, \* history: unlinkFailures[r]: the number of deletions of r that failed
    renderRequest, \* renderRequest[r]: what createCaptionsVideo asked the transcoder for
    media,         \* the duration, in tenths of a second, of the media files of /tmp
    fnLog,         \* the calls of the text functions made so far, with their results
    up,            \* the upload service: up[u] is the u-th request it received
    videos,        \* the upload bucket: the objects under videos/, in the order stored
    temp,          \* the upload bucket: the chunks under temp/, <<uploadId, index>> |-> bytes
    triggers,      \* the processing requests the upload service delivered to the pipeline
    page,          \* the upload page: the selected file, the email field, the submit button
    subs           \* the upload page: subs[s] is the s-th run of uploadVideo()

uploadVars == <<up, videos, temp, triggers, page, subs>>

vars == <<pc, body, transcription, aiResponse, sentences, finalVideoUrl, responses,
          fs, bucket, stageStarted, stageDone, stageFailed, diag, calls,
          notifyFailed, lastStarter, unlinkFailures, renderRequest, media, fnLog, uploadVars>>


(***************************************************************************)
(* Stages, in the order the handler awaits them.                           *)
(***************************************************************************)
Transcribe == 1
Generate == 2
Voice == 3
Captions == 4
Mux == 5
Publish == 6
Notify == 7
Stages == Transcribe..Notify

ExternalCalls == {"curl", "extract", "generateContent", "tts", "render", "mux",
                  "readFile", "save", "makePublic"}

BucketName == "ai-debate-uploads"

\* filePath of uploadFinalVideo
ObjectName(fileId) == <<"responses/", "response_">> \o TemplateString(fileId) \o <<".mp4">>

\* a variant that builds the URL from fileName instead of filePath
PublicUrlOfFileName(fileId) ==
    <<"https://storage.googleapis.com/", BucketName, "/", "response_">>
        \o TemplateString(fileId) \o <<".mp4">>

\* the URL uploadFinalVideo returns
PublicUrl(fileId) == <<"https://storage.googleapis.com/", BucketName, "/">> \o ObjectName(fileId)

\* text.substring(0, 200) + '...'
ResponseTextWhole(text) == text \o <<"...">>
ResponseText(text) == SubSeq(text, 1, IF Len(text) < 200 THEN Len(text) ELSE 200) \o <<"...">>

\* a local `const` of the handler: one binding per invocation
SetGlobal(f, r, v) == [q \in Reqs |-> v]
SetLocal(f, r, v) == [f EXCEPT ![r] = v]

Called(r, c) == [calls EXCEPT ![r][c] = @ + 1]
Started(r, s) == [stageStarted EXCEPT ![r] = @ \cup {s}]
Completed(r, s) == [stageDone EXCEPT ![r] = @ \cup {s}]

Exists(f) == f \in DOMAIN fs
WriteFile(f, r) == (f :> r) @@ fs
RemoveFile(f) == [g \in DOMAIN fs \ {f} |-> fs[g]]

\* fs.unlink(f).catch(() => {}): the file is removed, or the deletion fails and the
\* error is dropped
RECURSIVE FailedUpTo(_)
\* the deletions that failed in the requests 1..n
FailedUpTo(n) == IF n = 0 THEN 0 ELSE unlinkFailures[n] + FailedUpTo(n - 1)

Unlink(r, f) ==
    \/ /\ fs' = RemoveFile(f)
       /\ media' = [g \in DOMAIN media \ {f} |-> media[g]]
       /\ UNCHANGED unlinkFailures
    \/ /\ FailedUpTo(NumReqs) < MaxUnlinkFailures
       /\ unlinkFailures' = [unlinkFailures EXCEPT ![r] = @ + 1]
       /\ UNCHANGED <<fs, media>>

(***************************************************************************)
(* The caption render request of createCaptionsVideo.  Times are in tenths *)
(* of a second.                                                            *)
(***************************************************************************)
\* index * 3: seconds per sentence
SlotTenths == 30
\* startTime + 2.5: how long a sentence is shown
ShowTenths == 25
\* -t 60 of mockTextToSpeech
SpeechTenths == 600

\* sentence.replace(/'/g, "\\'")
RECURSIVE EscapeQuotes(_)
EscapeQuotes(s) ==
    IF s = <<>> THEN <<>>
    ELSE (IF Head(s) = "'" THEN <<"\\", "'">> ELSE <<Head(s)>>) \o EscapeQuotes(Tail(s))

\* the drawtext entry of the sentence at 0-based position index, shown too long
CaptionFilterLong(sentence, index) ==
    [text |-> EscapeQuotes(sentence),
     from |-> index * SlotTenths,
     to |-> index * SlotTenths + SlotTenths + ShowTenths]

\* the drawtext entry of the sentence at 0-based position index
CaptionFilter(sentence, index) ==
    [text |-> EscapeQuotes(sentence),
     from |-> index * SlotTenths,
     to |-> index * SlotTenths + ShowTenths]

\* what createCaptionsVideo hands to ffmpeg: the filters and the duration
CaptionsRequest(ss) ==
    [filters |-> [i \in 1..Len(ss) |-> CaptionFilter(ss[i], i - 1)],
     duration |-> Len(ss) * SlotTenths]

NoRequest == [filters |-> <<>>, duration |-> 0]

\* ffmpeg -i video -i audio -c:v copy -c:a aac, without -shortest: the output lasts
\* as long as its longer stream
MuxDuration(video, audio) == IF video > audio THEN video ELSE audio

InFlight(r) == pc[r] \notin {"idle", "done"}

Init ==
    /\ pc = [r \in Reqs |-> "idle"]
    /\ body = [r \in Reqs |-> NoBody]
    /\ transcription = [r \in Reqs |-> <<>>]
    /\ aiResponse = [r \in Reqs |-> <<>>]
    /\ sentences = [r \in Reqs |-> <<>>]
    /\ finalVideoUrl = [r \in Reqs |-> <<>>]
    /\ responses = [r \in Reqs |-> <<>>]
    /\ fs = <<>>
    /\ bucket = <<>>
    /\ stageStarted = [r \in Reqs |-> {}]
    /\ stageDone = [r \in Reqs |-> {}]
    /\ stageFailed = [r \in Reqs |-> 0]
    /\ diag = [r \in Reqs |-> ""]
    /\ calls = [r \in Reqs |-> [c \in ExternalCalls |-> 0]]
    /\ notifyFailed = [r \in Reqs |-> FALSE]
    /\ lastStarter = 0
    /\ unlinkFailures = [r \in Reqs |-> 0]
    /\ renderRequest = [r \in Reqs |-> NoRequest]
    /\ media = <<>>
    /\ fnLog = <<>>
    /\ up = <<>>
    /\ videos = <<>>
    /\ temp = <<>>
    /\ triggers = <<>>
    /\ page = [selectedFile |-> 0, emailField |-> <<>>, disabled |-> TRUE]
    /\ subs = <<>>

(***************************************************************************)
(* The handler's catch: a stage threw `message`; answer 500.               *)
(***************************************************************************)
\* a catch block that logs the error and sends nothing
CatchSilent(r, stage, message, d) ==
    /\ pc' = [pc EXCEPT ![r] = "done"]
    /\ stageFailed' = [stageFailed EXCEPT ![r] = stage]
    /\ diag' = [diag EXCEPT ![r] = d]
    /\ UNCHANGED <<body, transcription, aiResponse, sentences, finalVideoUrl, responses,
                   fs, bucket, stageStarted, stageDone, calls, notifyFailed, lastStarter,
                   unlinkFailures, renderRequest, media, fnLog, uploadVars>>

Catch(r, stage, message, d) ==
    /\ pc' = [pc EXCEPT ![r] = "done"]
    /\ responses' = [responses EXCEPT ![r] = Append(@,
           [status |-> 500, success |-> FALSE, error |-> "Video processing failed",
            details |-> message])]
    /\ stageFailed' = [stageFailed EXCEPT ![r] = stage]
    /\ diag' = [diag EXCEPT ![r] = d]
    /\ UNCHANGED <<body, transcription, aiResponse, sentences, finalVideoUrl, fs, bucket,
                   stageStarted, stageDone, calls, notifyFailed, lastStarter, unlinkFailures,
                   renderRequest, media, fnLog, uploadVars>>

(***************************************************************************)
(* The handler up to its first await: validation, then curl is launched.   *)
(***************************************************************************)
processDebateVideoRespondEarly(r) ==
    /\ pc[r] = "idle"
    /\ \A q \in 1..(r - 1) : pc[q] # "idle"
    /\ \E b \in Bodies :
        /\ body' = [body EXCEPT ![r] = b]
        /\ IF MissingRequired(b)
           THEN /\ pc' = [pc EXCEPT ![r] = "done"]
                /\ responses' = [responses EXCEPT ![r] = Append(@,
                       [status |-> 400, success |-> FALSE,
                        error |-> "Missing required parameters: videoUrl, fileId, userEmail"])]
                /\ UNCHANGED <<stageStarted, calls, lastStarter>>
           ELSE /\ pc' = [pc EXCEPT ![r] = "curl"]
                /\ responses' = [responses EXCEPT ![r] = Append(@,
                       [fileId |-> b.fileId,
                        transcription |-> ResponseText(<<>>),
                        aiResponse |-> ResponseText(<<>>),
                        finalVideoUrl |-> PublicUrl(b.fileId),
                        status |-> 200, success |-> TRUE])]
                /\ stageStarted' = Started(r, Transcribe)
                /\ calls' = Called(r, "curl")
                /\ lastStarter' = r
    /\ UNCHANGED <<transcription, aiResponse, sentences, finalVideoUrl, fs, bucket,
                   stageDone, stageFailed, diag, notifyFailed, unlinkFailures,
                   renderRequest, media, fnLog, uploadVars>>

\* a variant that launches the download before it validates the body
processDebateVideoValidateLate(r) ==
    /\ pc[r] = "idle"
    /\ \A q \in 1..(r - 1) : pc[q] # "idle"
    /\ \E b \in Bodies :
        /\ body' = [body EXCEPT ![r] = b]
        /\ stageStarted' = Started(r, Transcribe)
        /\ calls' = Called(r, "curl")
        /\ lastStarter' = r
        /\ IF MissingRequired(b)
           THEN /\ pc' = [pc EXCEPT ![r] = "done"]
                /\ responses' = [responses EXCEPT ![r] = Append(@,
                       [status |-> 400, success |-> FALSE,
                        error |-> "Missing required parameters: videoUrl, fileId, userEmail"])]
           ELSE /\ pc' = [pc EXCEPT ![r] = "curl"]
                /\ UNCHANGED responses
    /\ UNCHANGED <<transcription, aiResponse, sentences, finalVideoUrl, fs, bucket,
                   stageDone, stageFailed, diag, notifyFailed, unlinkFailures,
                   renderRequest, media, fnLog, uploadVars>>

processDebateVideo(r) ==
    /\ pc[r] = "idle"
    /\ \A q \in 1..(r - 1) : pc[q] # "idle"
    /\ \E b \in Bodies :
        /\ body' = [body EXCEPT ![r] = b]
        /\ IF MissingRequired(b)
           THEN /\ pc' = [pc EXCEPT ![r] = "done"]
                /\ responses' = [responses EXCEPT ![r] = Append(@,
                       [status |-> 400, success |-> FALSE,
                        error |-> "Missing required parameters: videoUrl, fileId, userEmail"])]
                /\ UNCHANGED <<stageStarted, calls, lastStarter>>
           ELSE /\ pc' = [pc EXCEPT ![r] = "curl"]
                /\ stageStarted' = Started(r, Transcribe)
                /\ calls' = Called(r, "curl")
                /\ lastStarter' = r
                /\ UNCHANGED responses
    /\ UNCHANGED <<transcription, aiResponse, sentences, finalVideoUrl, fs, bucket,
                   stageDone, stageFailed, diag, notifyFailed, unlinkFailures,
                   renderRequest, media, fnLog, uploadVars>>

(***************************************************************************)
(* Stage 1, downloadAndTranscribe.                                         *)
(***************************************************************************)
\* curl ends: the input video is written and ffmpeg is launched, or it failed
curlDone(r) ==
    /\ pc[r] = "curl"
    /\ \/ /\ fs' = WriteFile(File(body[r].fileId, "_input.mp4"), r)
          /\ pc' = [pc EXCEPT ![r] = "extract"]
          /\ calls' = Called(r, "extract")
          /\ UNCHANGED <<body, transcription, aiResponse, sentences, finalVideoUrl,
                         responses, bucket, stageStarted, stageDone, stageFailed, diag,
                         notifyFailed, lastStarter, unlinkFailures,
                   renderRequest, media, fnLog, uploadVars>>
       \/ \E d \in Diags : Catch(r, Transcribe, Wrap("Transcription failed", d), d)

\* ffmpeg ends: the audio is written, mockTranscription returns, unlink(videoPath) is issued
extractDone(r) ==
    /\ pc[r] = "extract"
    /\ \/ /\ Exists(File(body[r].fileId, "_input.mp4"))
          /\ fs' = WriteFile(File(body[r].fileId, "_audio.wav"), r)
          /\ transcription' = SetLocal(transcription, r, MockTranscription)
          /\ pc' = [pc EXCEPT ![r] = "unlinkInput"]
          /\ UNCHANGED <<body, aiResponse, sentences, finalVideoUrl, responses, bucket,
                         stageStarted, stageDone, stageFailed, diag, calls, notifyFailed,
                         lastStarter, unlinkFailures,
                   renderRequest, media, fnLog, uploadVars>>
       \/ \E d \in Diags : Catch(r, Transcribe, Wrap("Transcription failed", d), d)

\* a variant without .catch(() => {}): a failed deletion rejects the stage
unlinkInputDoneThrow(r) ==
    /\ pc[r] = "unlinkInput"
    /\ \/ /\ fs' = RemoveFile(File(body[r].fileId, "_input.mp4"))
          /\ pc' = [pc EXCEPT ![r] = "unlinkAudio"]
          /\ UNCHANGED <<body, transcription, aiResponse, sentences, finalVideoUrl,
                         responses, bucket, stageStarted, stageDone, stageFailed, diag,
                         calls, notifyFailed, lastStarter, unlinkFailures, renderRequest,
                         media, fnLog, uploadVars>>
       \/ \E d \in Diags : Catch(r, Transcribe, Wrap("Transcription failed", d), d)

\* fs.unlink(videoPath).catch(() => {}) settles
unlinkInputDone(r) ==
    /\ pc[r] = "unlinkInput"
    /\ Unlink(r, File(body[r].fileId, "_input.mp4"))
    /\ pc' = [pc EXCEPT ![r] = "unlinkAudio"]
    /\ UNCHANGED <<body, transcription, aiResponse, sentences, finalVideoUrl, responses,
                   bucket, stageStarted, stageDone, stageFailed, diag, calls, notifyFailed,
                   lastStarter,
                   renderRequest, fnLog, uploadVars>>

\* fs.unlink(audioPath) settles; stage 1 returns and generateContent is called
unlinkAudioDone(r) ==
    /\ pc[r] = "unlinkAudio"
    /\ Unlink(r, File(body[r].fileId, "_audio.wav"))
    /\ pc' = [pc EXCEPT ![r] = "generate"]
    /\ stageDone' = Completed(r, Transcribe)
    /\ stageStarted' = Started(r, Generate)
    /\ calls' = Called(r, "generateContent")
    /\ lastStarter' = r
    /\ UNCHANGED <<body, transcription, aiResponse, sentences, finalVideoUrl, responses,
                   bucket, stageFailed, diag, notifyFailed,
                   renderRequest, fnLog, uploadVars>>

(***************************************************************************)
(* Stage 2, generateAIResponse.                                            *)
(***************************************************************************)
\* a variant that launches the voice-over and the captions together
generateDoneParallel(r) ==
    /\ pc[r] = "generate"
    /\ \E text \in GenTexts : aiResponse' = SetLocal(aiResponse, r, text)
    /\ pc' = [pc EXCEPT ![r] = "tts"]
    /\ stageDone' = Completed(r, Generate)
    /\ stageStarted' = [stageStarted EXCEPT ![r] = @ \cup {Voice, Captions}]
    /\ calls' = Called(r, "tts")
    /\ lastStarter' = r
    /\ UNCHANGED <<body, transcription, sentences, finalVideoUrl, responses, fs,
                   bucket, stageFailed, diag, notifyFailed, unlinkFailures,
                   renderRequest, media, fnLog, uploadVars>>

\* generateContent settles: the text is returned and the voice-over ffmpeg is launched
generateDone(r) ==
    /\ pc[r] = "generate"
    /\ \/ /\ \E text \in GenTexts : aiResponse' = SetLocal(aiResponse, r, text)
          /\ pc' = [pc EXCEPT ![r] = "tts"]
          /\ stageDone' = Completed(r, Generate)
          /\ stageStarted' = Started(r, Voice)
          /\ calls' = Called(r, "tts")
          /\ lastStarter' = r
          /\ UNCHANGED <<body, transcription, sentences, finalVideoUrl, responses, fs,
                         bucket, stageFailed, diag, notifyFailed, unlinkFailures,
                   renderRequest, media, fnLog, uploadVars>>
       \/ \E d \in Diags : Catch(r, Generate, Wrap("AI response generation failed", d), d)

(***************************************************************************)
(* Stage 3, generateVoiceOver; stage 4, createAnimatedCaptions.            *)
(***************************************************************************)
\* the silent audio is written; the text is split and the caption render is launched
ttsDone(r) ==
    /\ pc[r] = "tts"
    /\ \/ /\ fs' = WriteFile(File(body[r].fileId, "_response.wav"), r)
          /\ media' = (File(body[r].fileId, "_response.wav") :> SpeechTenths) @@ media
          /\ sentences' = SetLocal(sentences, r, SplitSentences(aiResponse[r]))
          /\ renderRequest' = [renderRequest EXCEPT ![r] =
                                  CaptionsRequest(SplitSentences(aiResponse[r]))]
          /\ pc' = [pc EXCEPT ![r] = "render"]
          /\ stageDone' = Completed(r, Voice)
          /\ stageStarted' = Started(r, Captions)
          /\ calls' = Called(r, "render")
          /\ lastStarter' = r
          /\ UNCHANGED <<body, transcription, aiResponse, finalVideoUrl, responses,
                         bucket, stageFailed, diag, notifyFailed, unlinkFailures,
                   fnLog, uploadVars>>
       \/ \E d \in Diags : Catch(r, Voice, Wrap("Voice generation failed", d), d)

\* a variant whose createCaptionsVideo logs the error and does not rethrow it
renderDoneSwallow(r) ==
    /\ pc[r] = "render"
    /\ pc' = [pc EXCEPT ![r] = "mux"]
    /\ stageStarted' = Started(r, Mux)
    /\ calls' = Called(r, "mux")
    /\ lastStarter' = r
    /\ \/ /\ fs' = WriteFile(File(body[r].fileId, "_captions.mp4"), r)
          /\ media' = (File(body[r].fileId, "_captions.mp4") :> renderRequest[r].duration)
                          @@ media
          /\ stageDone' = Completed(r, Captions)
          /\ UNCHANGED stageFailed
       \/ /\ stageFailed' = [stageFailed EXCEPT ![r] = Captions]
          /\ UNCHANGED <<fs, media, stageDone>>
    /\ UNCHANGED <<body, transcription, aiResponse, sentences, finalVideoUrl, responses,
                   bucket, diag, notifyFailed, unlinkFailures,
                   renderRequest, fnLog, uploadVars>>

\* the caption render ends: the caption video is written and the mux is launched
renderDone(r) ==
    /\ pc[r] = "render"
    /\ \/ /\ fs' = WriteFile(File(body[r].fileId, "_captions.mp4"), r)
          /\ media' = (File(body[r].fileId, "_captions.mp4") :> renderRequest[r].duration)
                          @@ media
          /\ pc' = [pc EXCEPT ![r] = "mux"]
          /\ stageDone' = Completed(r, Captions)
          /\ stageStarted' = Started(r, Mux)
          /\ calls' = Called(r, "mux")
          /\ lastStarter' = r
          /\ UNCHANGED <<body, transcription, aiResponse, sentences, finalVideoUrl,
                         responses, bucket, stageFailed, diag, notifyFailed, unlinkFailures,
                   renderRequest, fnLog, uploadVars>>
       \/ \E d \in Diags : Catch(r, Captions, Wrap("Captions creation failed", d), d)

(***************************************************************************)
(* Stage 5, combineVideoAndAudio.                                          *)
(***************************************************************************)
\* the mux ends: the final video is written and unlink(videoPath) is issued
muxDone(r) ==
    /\ pc[r] = "mux"
    /\ \/ /\ Exists(File(body[r].fileId, "_captions.mp4"))
          /\ Exists(File(body[r].fileId, "_response.wav"))
          /\ fs' = WriteFile(File(body[r].fileId, "_final.mp4"), r)
          /\ media' = (File(body[r].fileId, "_final.mp4") :>
                           MuxDuration(media[File(body[r].fileId, "_captions.mp4")],
                                       media[File(body[r].fileId, "_response.wav")]))
                          @@ media
          /\ pc' = [pc EXCEPT ![r] = "unlinkCaptions"]
          /\ UNCHANGED <<body, transcription, aiResponse, sentences, finalVideoUrl,
                         responses, bucket, stageStarted, stageDone, stageFailed, diag,
                         calls, notifyFailed, lastStarter, unlinkFailures,
                   renderRequest, fnLog, uploadVars>>
       \/ \E d \in Diags : Catch(r, Mux, Wrap("Video combination failed", d), d)

unlinkCaptionsDone(r) ==
    /\ pc[r] = "unlinkCaptions"
    /\ Unlink(r, File(body[r].fileId, "_captions.mp4"))
    /\ pc' = [pc EXCEPT ![r] = "unlinkResponse"]
    /\ UNCHANGED <<body, transcription, aiResponse, sentences, finalVideoUrl, responses,
                   bucket, stageStarted, stageDone, stageFailed, diag, calls, notifyFailed,
                   lastStarter,
                   renderRequest, fnLog, uploadVars>>

\* a variant that forgets to delete the synthesized audio
unlinkResponseDoneSkip(r) ==
    /\ pc[r] = "unlinkResponse"
    /\ pc' = [pc EXCEPT ![r] = "readFile"]
    /\ stageDone' = Completed(r, Mux)
    /\ stageStarted' = Started(r, Publish)
    /\ calls' = Called(r, "readFile")
    /\ lastStarter' = r
    /\ UNCHANGED <<body, transcription, aiResponse, sentences, finalVideoUrl, responses,
                   bucket, stageFailed, diag, notifyFailed, fs, media, unlinkFailures,
                   renderRequest, fnLog, uploadVars>>

\* unlink(audioPath) settles; stage 5 returns and readFile(finalPath) is issued
unlinkResponseDone(r) ==
    /\ pc[r] = "unlinkResponse"
    /\ Unlink(r, File(body[r].fileId, "_response.wav"))
    /\ pc' = [pc EXCEPT ![r] = "readFile"]
    /\ stageDone' = Completed(r, Mux)
    /\ stageStarted' = Started(r, Publish)
    /\ calls' = Called(r, "readFile")
    /\ lastStarter' = r
    /\ UNCHANGED <<body, transcription, aiResponse, sentences, finalVideoUrl, responses,
                   bucket, stageFailed, diag, notifyFailed,
                   renderRequest, fnLog, uploadVars>>

(***************************************************************************)
(* Stage 6, uploadFinalVideo.                                              *)
(***************************************************************************)
\* readFile settles: the bytes are handed to file.save
readFileDone(r) ==
    /\ pc[r] = "readFile"
    /\ \/ /\ Exists(File(body[r].fileId, "_final.mp4"))
          /\ pc' = [pc EXCEPT ![r] = "save"]
          /\ calls' = Called(r, "save")
          /\ UNCHANGED <<body, transcription, aiResponse, sentences, finalVideoUrl,
                         responses, fs, bucket, stageStarted, stageDone, stageFailed,
                         diag, notifyFailed, lastStarter, unlinkFailures,
                   renderRequest, media, fnLog, uploadVars>>
       \/ \E d \in Diags \cup {ENOENT} :
            /\ d = ENOENT <=> ~Exists(File(body[r].fileId, "_final.mp4"))
            /\ Catch(r, Publish, Wrap("Final video upload failed", d), d)

\* a variant that saves a second time when the first save failed
saveDoneRetry(r) ==
    /\ pc[r] = "save"
    /\ \/ /\ bucket' = (ObjectName(body[r].fileId) :> [public |-> FALSE, owner |-> r]) @@ bucket
          /\ pc' = [pc EXCEPT ![r] = "makePublic"]
          /\ calls' = Called(r, "makePublic")
          /\ UNCHANGED <<body, transcription, aiResponse, sentences, finalVideoUrl,
                         responses, fs, stageStarted, stageDone, stageFailed, diag,
                         notifyFailed, lastStarter, unlinkFailures,
                   renderRequest, media, fnLog, uploadVars>>
       \/ IF calls[r]["save"] < 2
          THEN /\ calls' = Called(r, "save")
               /\ UNCHANGED <<pc, body, transcription, aiResponse, sentences,
                              finalVideoUrl, responses, fs, bucket, stageStarted,
                              stageDone, stageFailed, diag, notifyFailed, lastStarter, unlinkFailures,
                   renderRequest, media, fnLog, uploadVars>>
          ELSE \E d \in Diags : Catch(r, Publish, Wrap("Final video upload failed", d), d)

\* file.save settles: the object exists and makePublic is called, or the save failed
saveDone(r) ==
    /\ pc[r] = "save"
    /\ \/ /\ bucket' = (ObjectName(body[r].fileId) :> [public |-> FALSE, owner |-> r]) @@ bucket
          /\ pc' = [pc EXCEPT ![r] = "makePublic"]
          /\ calls' = Called(r, "makePublic")
          /\ UNCHANGED <<body, transcription, aiResponse, sentences, finalVideoUrl,
                         responses, fs, stageStarted, stageDone, stageFailed, diag,
                         notifyFailed, lastStarter, unlinkFailures,
                   renderRequest, media, fnLog, uploadVars>>
       \/ \E d \in Diags : Catch(r, Publish, Wrap("Final video upload failed", d), d)

\* file.makePublic settles: the object is public and unlink(videoPath) is issued
makePublicDone(r) ==
    /\ pc[r] = "makePublic"
    /\ \/ /\ ObjectName(body[r].fileId) \in DOMAIN bucket
          /\ bucket' = [bucket EXCEPT ![ObjectName(body[r].fileId)].public = TRUE]
          /\ pc' = [pc EXCEPT ![r] = "unlinkFinal"]
          /\ UNCHANGED <<body, transcription, aiResponse, sentences, finalVideoUrl,
                         responses, fs, stageStarted, stageDone, stageFailed, diag, calls,
                         notifyFailed, lastStarter, unlinkFailures,
                   renderRequest, media, fnLog, uploadVars>>
       \/ \E d \in Diags : Catch(r, Publish, Wrap("Final video upload failed", d), d)

\* unlink(videoPath) settles; stage 6 returns the URL and sendEmailNotification is called
unlinkFinalDone(r) ==
    /\ pc[r] = "unlinkFinal"
    /\ Unlink(r, File(body[r].fileId, "_final.mp4"))
    /\ finalVideoUrl' = SetLocal(finalVideoUrl, r, PublicUrl(body[r].fileId))
    /\ pc' = [pc EXCEPT ![r] = "notify"]
    /\ stageDone' = Completed(r, Publish)
    /\ stageStarted' = Started(r, Notify)
    /\ lastStarter' = r
    /\ UNCHANGED <<body, transcription, aiResponse, sentences, responses, bucket,
                   stageFailed, diag, calls, notifyFailed,
                   renderRequest, fnLog, uploadVars>>

(***************************************************************************)
(* Stage 7, sendEmailNotification, and the 200 response.                   *)
(***************************************************************************)
\* the body of res.status(200).json({...})
SuccessBody(fileId, url, time, t, ai) ==
    [fileId |-> fileId,
     message |-> "Video processing completed successfully",
     transcription |-> ResponseText(t),
     aiResponse |-> ResponseText(ai),
     finalVideoUrl |-> url,
     status |-> 200,
     success |-> TRUE,
     processingTime |-> time]

\* Date.now() - startTime, on a clock that ticks once for each external call the
\* request awaited
RECURSIVE Ticks(_, _)
Ticks(r, cs) ==
    IF cs = {} THEN 0
    ELSE LET c == CHOOSE x \in cs : TRUE IN calls[r][c] + Ticks(r, cs \ {c})

ProcessingTime(r) == Ticks(r, ExternalCalls)

Success(r) ==
    SuccessBody(body[r].fileId, finalVideoUrl[r], ProcessingTime(r), transcription[r],
                aiResponse[r])

\* a variant without the try/catch of sendEmailNotification
sendEmailNotificationDoneRethrow(r) ==
    /\ pc[r] = "notify"
    /\ \/ /\ pc' = [pc EXCEPT ![r] = "done"]
          /\ stageDone' = Completed(r, Notify)
          /\ responses' = [responses EXCEPT ![r] = Append(@, Success(r))]
          /\ UNCHANGED <<body, transcription, aiResponse, sentences, finalVideoUrl, fs,
                         bucket, stageStarted, stageFailed, diag, calls, notifyFailed,
                         lastStarter, unlinkFailures,
                   renderRequest, media, fnLog, uploadVars>>
       \/ \E d \in Diags :
            /\ notifyFailed' = [notifyFailed EXCEPT ![r] = TRUE]
            /\ pc' = [pc EXCEPT ![r] = "done"]
            /\ responses' = [responses EXCEPT ![r] = Append(@,
                   [status |-> 500, success |-> FALSE,
                    error |-> "Video processing failed", details |-> <<d>>])]
            /\ UNCHANGED <<body, transcription, aiResponse, sentences, finalVideoUrl, fs,
                           bucket, stageStarted, stageDone, stageFailed, diag, calls,
                           lastStarter, unlinkFailures,
                   renderRequest, media, fnLog, uploadVars>>

\* the notification returns, its own error caught and logged; the handler answers 200
sendEmailNotificationDone(r) ==
    /\ pc[r] = "notify"
    /\ \E failed \in BOOLEAN : notifyFailed' = [notifyFailed EXCEPT ![r] = failed]
    /\ pc' = [pc EXCEPT ![r] = "done"]
    /\ stageDone' = Completed(r, Notify)
    /\ responses' = [responses EXCEPT ![r] = Append(@, Success(r))]
    /\ UNCHANGED <<body, transcription, aiResponse, sentences, finalVideoUrl, fs, bucket,
                   stageStarted, stageFailed, diag, calls, lastStarter, unlinkFailures,
                   renderRequest, media, fnLog, uploadVars>>

Next ==
    \E r \in Reqs :
        \/ processDebateVideo(r)
        \/ curlDone(r)
        \/ extractDone(r)
        \/ unlinkInputDone(r)
        \/ unlinkAudioDone(r)
        \/ generateDone(r)
        \/ ttsDone(r)
        \/ renderDone(r)
        \/ muxDone(r)
        \/ unlinkCaptionsDone(r)
        \/ unlinkResponseDone(r)
        \/ readFileDone(r)
        \/ saveDone(r)
        \/ makePublicDone(r)
        \/ unlinkFinalDone(r)
        \/ sendEmailNotificationDone(r)

Spec == Init /\ [][Next]_vars

(***************************************************************************)
(* Every external call a request awaits eventually returns or fails: the   *)
(* continuation of a suspended handler eventually runs.  Requests arrive   *)
(* when their senders please.                                              *)
(***************************************************************************)
Continue(r) ==
    \/ curlDone(r)
    \/ extractDone(r)
    \/ unlinkInputDone(r)
    \/ unlinkAudioDone(r)
    \/ generateDone(r)
    \/ ttsDone(r)
    \/ renderDone(r)
    \/ muxDone(r)
    \/ unlinkCaptionsDone(r)
    \/ unlinkResponseDone(r)
    \/ readFileDone(r)
    \/ saveDone(r)
    \/ makePublicDone(r)
    \/ unlinkFinalDone(r)
    \/ sendEmailNotificationDone(r)

\* the bodies of the requests whose termination is checked: complete ones, which
\* share their temp files, and ones without videoUrl
LiveBodies == {b \in Bodies : b.fileId = Str(<<"a">>) /\ b.userEmail = Str(<<"e">>)}

NextLive ==
    \E r \in Reqs :
        \/ processDebateVideo(r) /\ body'[r] \in LiveBodies
        \/ Continue(r)

SpecLive == Init /\ [][NextLive]_vars /\ \A r \in Reqs : WF_vars(Continue(r))

(***************************************************************************)
(* The text functions of the pipeline, applied to inputs the handler's     *)
(* stubs never produce.  fnLog records each call with its arguments and    *)
(* its result; the handlers are idle throughout.                           *)
(***************************************************************************)
MaxCalls == 2

\* the transcripts and the optional topic strings handed to generateAIResponse
Transcripts == {Str(<<>>), Str(<<"a">>), Str(<<"a", "\"", "b">>)}
Topics == {Undefined, Str(<<>>), Str(<<"t">>), Str(<<"t", " ", "u">>)}

\* the fixed parts of the prompt template
PromptHead ==
    "You are an expert debate coach and AI assistant. Analyze the following debate video transcription and provide a thoughtful, engaging response.\n\nTranscription: \""
PromptMiddle == "\"\n\nTopic: "
PromptTail ==
    "\n\nPlease provide:\n1. A brief acknowledgment of the speaker's points\n2. A thoughtful counter-argument or additional perspective\n3. Constructive feedback or suggestions\n4. An encouraging conclusion\n\nMake your response engaging, respectful, and educational. Aim for approximately 150-200 words that would take about 60-90 seconds to speak naturally."

\* a variant of the template that leaves the topic out
BuildPromptNoTopic(t, topic) ==
    <<PromptHead>> \o TemplateString(t) \o <<PromptMiddle, "General debate", PromptTail>>

\* the template literal of generateAIResponse
BuildPrompt(t, topic) ==
    <<PromptHead>> \o TemplateString(t) \o <<PromptMiddle>>
        \o (IF Falsy(topic) THEN <<"General debate">> ELSE TemplateString(topic))
        \o <<PromptTail>>

\* caption sentences with and without single quotes
QuotedSentences == { <<"i", "t", "s">>, <<"i", "t", "'", "s">>, <<"'", "i", "t", "'">> }

\* one element of filterComplex, as the characters handed to ffmpeg -vf "..."; the
\* double quotes of the shell leave backslashes and single quotes as they are
DrawText(cf) ==
    <<"drawtext", "=", "text", "=", "'">> \o cf.text
        \o <<"'", ":", "fontsize=24", ":", "fontcolor=white", ":", "x=(w-text_w)/2", ":",
             "y=h-th-50", ":", "enable", "=", "'", "between(t", ",", ToString(cf.from),
             ",", ToString(cf.to), ")", "'", ":", "box=1", ":", "boxcolor=black@0.5">>

\* ffmpeg's token reader (av_get_token), which the filtergraph parser applies to the
\* arguments of a filter and the option parser to each value: leading white space is
\* skipped, a backslash outside quotes takes the next character literally, a single
\* quote copies everything up to the next single quote (backslashes included), and the
\* token ends at the first unquoted terminator.
RECURSIVE SkipSpace(_, _)
SkipSpace(buf, i) ==
    IF i <= Len(buf) /\ buf[i] \in WhiteSpace THEN SkipSpace(buf, i + 1) ELSE i

RECURSIVE QuoteClose(_, _)
QuoteClose(buf, i) ==
    IF i > Len(buf) \/ buf[i] = "'" THEN i ELSE QuoteClose(buf, i + 1)

RECURSIVE DropTrailing(_, _)
DropTrailing(out, end) ==
    IF Len(out) > end /\ out[Len(out)] \in WhiteSpace
    THEN DropTrailing(SubSeq(out, 1, Len(out) - 1), end)
    ELSE out

RECURSIVE Scan(_, _, _, _, _)
Scan(buf, i, term, out, end) ==
    IF i > Len(buf) \/ buf[i] \in term
    THEN [token |-> DropTrailing(out, end), next |-> i]
    ELSE IF buf[i] = "\\" /\ i < Len(buf)
    THEN Scan(buf, i + 2, term, Append(out, buf[i + 1]), Len(out) + 1)
    ELSE IF buf[i] = "'"
    THEN LET j == QuoteClose(buf, i + 1)
             o == out \o SubSeq(buf, i + 1, j - 1)
         IN  IF j <= Len(buf) THEN Scan(buf, j + 1, term, o, Len(o))
                              ELSE Scan(buf, j, term, o, end)
    ELSE Scan(buf, i + 1, term, Append(out, buf[i]), end)

GetToken(buf, term) == Scan(buf, SkipSpace(buf, 1), term, <<>>, 0)

\* what ffmpeg makes of one element of filterComplex: the arguments of the filter end
\* at the first unquoted "," ";" or "[", and the value of text at the first ":" of them
FilterArgs(filter) == GetToken(SubSeq(filter, 3, Len(filter)), {"[", "]", ",", ";"})
TextOption(args) == GetToken(SubSeq(args, 3, Len(args)), {":"}).token

\* texts around the 200 characters the response keeps of them
TextOfLen(n) == [i \in 1..n |-> ToString(i % 10)]

ResponseTexts == {TextOfLen(n) : n \in {0, 199, 200, 201}}
ResponseIds == {Str(<<"a">>), Num(<<"7">>)}
ResponseTimes == {0, 1}

pipelineVars == <<pc, body, transcription, aiResponse, sentences, finalVideoUrl,
                  responses, fs, bucket, stageStarted, stageDone, stageFailed, diag,
                  calls, notifyFailed, lastStarter, unlinkFailures, renderRequest,
                  media>>

Logged(fn, args, result) ==
    /\ Len(fnLog) < MaxCalls
    /\ fnLog' = Append(fnLog, [args |-> args, fn |-> fn, result |-> result])
    /\ UNCHANGED <<pipelineVars, uploadVars>>

\* generateAIResponse builds the prompt it sends to generateContent
generateAIResponse ==
    \E t \in Transcripts, topic \in Topics :
        Logged("generateAIResponse", <<t, topic>>, BuildPrompt(t, topic))

\* createCaptionsVideo builds the drawtext filter of a sentence
createCaptionsVideo ==
    \E sentence \in QuotedSentences :
        Logged("createCaptionsVideo", <<sentence>>, DrawText(CaptionFilter(sentence, 0)))

\* the handler builds the body of its 200 response
respond ==
    \E fileId \in ResponseIds, time \in ResponseTimes, t \in ResponseTexts,
       ai \in ResponseTexts :
        Logged("respond", <<fileId, PublicUrl(fileId), time, t, ai>>,
               SuccessBody(fileId, PublicUrl(fileId), time, t, ai))

NextFn ==
    \/ generateAIResponse
    \/ createCaptionsVideo
    \/ respond

SpecFn == Init /\ [][NextFn]_vars

(***************************************************************************)
(* The upload service (cloud-functions/upload-handler.js) and the upload   *)
(* page (web-upload/upload.js).  Sizes are scaled: the 5MB chunk of the    *)
(* page is 2 bytes, its 50MB threshold 4 bytes and the 100MB limit 8.      *)
(***************************************************************************)
\* CHUNK_SIZE, LARGE_FILE_THRESHOLD, maxSize / limits.fileSize
ChunkSize == 2
LargeFileThreshold == 4
MaxFileSize == 8

Min(a, b) == IF a < b THEN a ELSE b

B64Alphabet ==
    <<"A", "B", "C", "D", "E", "F", "G", "H", "I", "J", "K", "L", "M", "N", "O", "P",
      "Q", "R", "S", "T", "U", "V", "W", "X", "Y", "Z", "a", "b", "c", "d", "e", "f",
      "g", "h", "i", "j", "k", "l", "m", "n", "o", "p", "q", "r", "s", "t", "u", "v",
      "w", "x", "y", "z", "0", "1", "2", "3", "4", "5", "6", "7", "8", "9", "+", "/">>

B64Char(n) == B64Alphabet[n + 1]
B64Index(c) == CHOOSE n \in 0..63 : B64Alphabet[n + 1] = c

\* the base64 text of a run of bytes, as FileReader.readAsDataURL produces it
RECURSIVE ToBase64(_)
ToBase64(b) ==
    IF Len(b) = 0 THEN <<>>
    ELSE IF Len(b) = 1
    THEN <<B64Char(b[1] \div 4), B64Char((b[1] % 4) * 16), "=", "=">>
    ELSE IF Len(b) = 2
    THEN <<B64Char(b[1] \div 4), B64Char((b[1] % 4) * 16 + b[2] \div 16),
           B64Char((b[2] % 16) * 4), "=">>
    ELSE <<B64Char(b[1] \div 4), B64Char((b[1] % 4) * 16 + b[2] \div 16),
           B64Char((b[2] % 16) * 4 + b[3] \div 64), B64Char(b[3] % 64)>>
             \o ToBase64(SubSeq(b, 4, Len(b)))

\* Buffer.from(text, 'base64'): decoding stops at the padding; a last group of two or
\* three characters gives one or two bytes
RECURSIVE DecodeGroups(_)
DecodeGroups(c) ==
    IF Len(c) < 2 THEN <<>>
    ELSE LET n1 == B64Index(c[1])
             n2 == B64Index(c[2])
         IN  IF Len(c) = 2 THEN <<n1 * 4 + n2 \div 16>>
             ELSE LET n3 == B64Index(c[3]) IN
                  IF Len(c) = 3
                  THEN <<n1 * 4 + n2 \div 16, (n2 % 16) * 16 + n3 \div 4>>
                  ELSE <<n1 * 4 + n2 \div 16, (n2 % 16) * 16 + n3 \div 4,
                         (n3 % 4) * 64 + B64Index(c[4])>>
                           \o DecodeGroups(SubSeq(c, 5, Len(c)))

RECURSIVE UpToPadding(_)
UpToPadding(c) ==
    IF c = <<>> \/ Head(c) = "=" THEN <<>> ELSE <<Head(c)>> \o UpToPadding(Tail(c))

FromBase64(c) == DecodeGroups(UpToPadding(c))

\* the files the user can pick: a small video, a video above the chunking threshold,
\* a video above the size limit, a file that is no video, and a second video above
\* the chunking threshold
UserFiles ==
    << [type |-> "video/mp4", bytes |-> <<77, 0, 255>>],
       [type |-> "video/mp4", bytes |-> <<1, 2, 3, 4, 250>>],
       [type |-> "video/mp4", bytes |-> <<9, 8, 7, 6, 5, 4, 3, 2, 1>>],
       [type |-> "text/plain", bytes |-> <<104>>],
       [type |-> "video/mp4", bytes |-> <<11, 12, 13, 14, 15, 16>>] >>

IsVideoType(type) == type = "video/mp4"

\* reader.result.split(',')[1] of the data URL of a blob
DataUrl(type, bytes) == <<"data:", type, ";base64", ",">> \o ToBase64(bytes)

RECURSIVE UpToComma(_)
UpToComma(c) ==
    IF c = <<>> \/ Head(c) = "," THEN <<>> ELSE <<Head(c)>> \o UpToComma(Tail(c))

SecondPiece(c) ==
    LET first == UpToComma(c) IN
    IF Len(first) = Len(c) THEN <<>> ELSE UpToComma(SubSeq(c, Len(first) + 2, Len(c)))

fileToBase64(type, bytes) == SecondPiece(DataUrl(type, bytes))

\* /^[^\s@]+@[^\s@]+\.[^\s@]+$/.test(email), with !email for the missing field
ValidEmail(e) ==
    /\ \A k \in 1..Len(e) : e[k] \notin WhiteSpace
    /\ \E k \in 2..Len(e) :
          /\ e[k] = "@"
          /\ \A j \in 1..Len(e) : e[j] = "@" => j = k
          /\ \E d \in (k + 2)..(Len(e) - 1) : e[d] = "."

EmailValues == { <<>>, <<"a", "@", "b", ".", "c">> }

\* the fields of a request the upload service reads; <<>> and 0 stand for a field
\* that is not there
UploadBody(videoData, chunkData, uploadId, chunkIndex, totalChunks, isLastChunk, fileType, email, fieldname, bytes) ==
    [bytes |-> bytes, videoData |-> videoData, chunkData |-> chunkData,
     uploadId |-> uploadId, chunkIndex |-> chunkIndex, totalChunks |-> totalChunks,
     isLastChunk |-> isLastChunk, fileType |-> fileType, email |-> email,
     fieldname |-> fieldname]

Base64Body(videoData, fileType, email) ==
    UploadBody(videoData, <<>>, 0, 0, 0, FALSE, fileType, email, "", <<>>)

ChunkBody(uploadId, chunkIndex, totalChunks, chunkData, fileType, email) ==
    UploadBody(<<>>, chunkData, uploadId, chunkIndex, totalChunks,
               chunkIndex = totalChunks - 1, fileType, email, "", <<>>)

MultipartBody(fieldname, fileType, bytes, email) ==
    UploadBody(<<>>, <<>>, 0, 0, 0, FALSE, fileType, email, fieldname, bytes)

\* what the service answers: res.status(status).json({success, isLastChunk,
\* processingTriggered})
UploadResponse(status, isLastChunk, processingTriggered) ==
    [status |-> status, success |-> status = 200, isLastChunk |-> isLastChunk,
     processingTriggered |-> processingTriggered]

\* a request as it arrives: kind is the Content-Type branch, sub the run of the page's
\* uploadVideo() that sent it (0: another caller)
NewUpload(kind, sub, b) ==
    [kind |-> kind, i |-> 0, pc |-> "start", body |-> b, email |-> <<>>, sub |-> sub,
     sent |-> <<>>, buffer |-> <<>>, chunks |-> <<>>,
     hasError |-> FALSE, fileSeen |-> FALSE, fileOpen |-> FALSE, fileData |-> FALSE,
     fieldSeen |-> FALSE]

\* res.status(...).json(...) and the handler is over
Answer(q, status, isLastChunk, processingTriggered) ==
    [q EXCEPT !.sent = Append(@, UploadResponse(status, isLastChunk, processingTriggered)),
              !.pc = "done"]

\* handleChunkedUpload up to chunkFile.save
StartChunked(q) ==
    IF ~ValidEmail(q.body.email) THEN Answer(q, 400, FALSE, FALSE)
    ELSE IF ~IsVideoType(q.body.fileType) THEN Answer(q, 400, FALSE, FALSE)
    ELSE [q EXCEPT !.pc = "saveChunk", !.buffer = FromBase64(q.body.chunkData)]

\* handleBase64Upload up to file.save
StartBase64(q) ==
    IF q.body.chunkData # <<>> /\ q.body.uploadId # 0 THEN StartChunked(q)
    ELSE IF q.body.videoData = <<>> THEN Answer(q, 400, FALSE, FALSE)
    ELSE IF ~ValidEmail(q.body.email) THEN Answer(q, 400, FALSE, FALSE)
    ELSE IF ~IsVideoType(q.body.fileType) THEN Answer(q, 400, FALSE, FALSE)
    ELSE [q EXCEPT !.pc = "save", !.buffer = FromBase64(q.body.videoData)]

\* exports.uploadVideo up to its first await or to req.pipe(busboy)
StartUpload(kind, sub, b) ==
    IF kind = "json" THEN StartBase64(NewUpload(kind, sub, b))
    ELSE [NewUpload(kind, sub, b) EXCEPT !.pc = "busboy"]

Uploads == 1..Len(up)

\* the catch block of the handler request u is in: 500
UploadCatch(u) ==
    /\ up' = [up EXCEPT ![u] = Answer(@, 500, FALSE, FALSE)]
    /\ UNCHANGED <<videos, temp, triggers, page, subs>>

IsChunked(q) == q.kind = "json" /\ q.body.chunkData # <<>> /\ q.body.uploadId # 0

ChunkKey(q, i) == <<q.body.uploadId, i>>

\* Buffer.concat(chunks)
RECURSIVE Concat(_)
Concat(bs) == IF bs = <<>> THEN <<>> ELSE Head(bs) \o Concat(Tail(bs))

\* bytes [from, to) of a file, as Blob.slice and busboy's fileSize limit cut them
Slice(bytes, from, to) == SubSeq(bytes, from + 1, Min(to, Len(bytes)))

\* chunkFile.save settles; the last chunk starts the combination
chunkSaveDone(u) ==
    /\ u \in Uploads
    /\ up[u].pc = "saveChunk"
    /\ \/ /\ temp' = (ChunkKey(up[u], up[u].body.chunkIndex) :> up[u].buffer) @@ temp
          /\ up' = [up EXCEPT ![u] =
                IF ~up[u].body.isLastChunk THEN Answer(up[u], 200, FALSE, FALSE)
                ELSE IF up[u].body.totalChunks > 0
                THEN [up[u] EXCEPT !.pc = "download", !.i = 0, !.chunks = <<>>]
                ELSE [up[u] EXCEPT !.pc = "save", !.buffer = <<>>]]
          /\ UNCHANGED <<videos, triggers, page, subs>>
       \/ UploadCatch(u)
    /\ UNCHANGED <<pipelineVars, fnLog>>

\* tempChunkFile.download settles for chunk i
chunkDownloadDone(u) ==
    /\ u \in Uploads
    /\ up[u].pc = "download"
    /\ \/ /\ ChunkKey(up[u], up[u].i) \in DOMAIN temp
          /\ up' = [up EXCEPT ![u] =
                LET got == Append(up[u].chunks, temp[ChunkKey(up[u], up[u].i)]) IN
                IF up[u].i + 1 < up[u].body.totalChunks
                THEN [up[u] EXCEPT !.chunks = got, !.i = up[u].i + 1]
                ELSE [up[u] EXCEPT !.chunks = got, !.buffer = Concat(got), !.pc = "save"]]
          /\ UNCHANGED <<videos, temp, triggers, page, subs>>
       \/ UploadCatch(u)
    /\ UNCHANGED <<pipelineVars, fnLog>>

\* file.save settles: the video is stored under videos/upload_<uuid>
uploadSaveDone(u) ==
    /\ u \in Uploads
    /\ up[u].pc = "save"
    /\ \/ /\ videos' = Append(videos, [fileId |-> u, public |-> FALSE,
                                       bytes |-> up[u].buffer, sub |-> up[u].sub])
          /\ up' = [up EXCEPT ![u].pc = "makePublic"]
          /\ UNCHANGED <<temp, triggers, page, subs>>
       \/ UploadCatch(u)
    /\ UNCHANGED <<pipelineVars, fnLog>>

\* file.makePublic settles
uploadMakePublicDone(u) ==
    /\ u \in Uploads
    /\ up[u].pc = "makePublic"
    /\ \/ /\ videos' = [v \in DOMAIN videos |->
                          IF videos[v].fileId = u THEN [videos[v] EXCEPT !.public = TRUE]
                          ELSE videos[v]]
          /\ up' = [up EXCEPT ![u] =
                IF IsChunked(up[u]) /\ up[u].body.totalChunks > 0
                THEN [up[u] EXCEPT !.pc = "delete", !.i = 0]
                ELSE [up[u] EXCEPT !.pc = "fetch"]]
          /\ UNCHANGED <<temp, triggers, page, subs>>
       \/ UploadCatch(u)
    /\ UNCHANGED <<pipelineVars, fnLog>>

\* tempChunkFile.delete().catch(...) settles for chunk i, either way
chunkDeleteDone(u) ==
    /\ u \in Uploads
    /\ up[u].pc = "delete"
    /\ \/ temp' = [k \in DOMAIN temp \ {ChunkKey(up[u], up[u].i)} |-> temp[k]]
       \/ UNCHANGED temp
    /\ up' = [up EXCEPT ![u] =
          IF up[u].i + 1 < up[u].body.totalChunks THEN [up[u] EXCEPT !.i = up[u].i + 1]
          ELSE [up[u] EXCEPT !.pc = "fetch"]]
    /\ UNCHANGED <<videos, triggers, page, subs>>
    /\ UNCHANGED <<pipelineVars, fnLog>>

\* fetch(cloudRunUrl) settles: an OK response, another response, or a network error
uploadFetchDone(u) ==
    /\ u \in Uploads
    /\ up[u].pc = "fetch"
    /\ \/ \E ok \in BOOLEAN :
            /\ triggers' = Append(triggers, [fileId |-> u, sub |-> up[u].sub, ok |-> ok])
            /\ up' = [up EXCEPT ![u] = Answer(up[u], 200, IsChunked(up[u]), ok)]
            /\ UNCHANGED <<videos, temp, page, subs>>
       \/ UploadCatch(u)
    /\ UNCHANGED <<pipelineVars, fnLog>>

\* res.status(400).json(...) from an event handler: the parser goes on
Reply400(q) == [q EXCEPT !.sent = Append(@, UploadResponse(400, FALSE, FALSE))]

\* busboy 'file': the one file part of the form (limits.files is 1)
onFile(u) ==
    /\ u \in Uploads
    /\ up[u].pc = "busboy"
    /\ up[u].body.fieldname # ""
    /\ ~up[u].fileSeen
    /\ up' = [up EXCEPT ![u] =
          IF up[u].body.fieldname # "video" \/ ~IsVideoType(up[u].body.fileType)
          THEN [Reply400(up[u]) EXCEPT !.hasError = TRUE, !.fileSeen = TRUE]
          ELSE [up[u] EXCEPT !.fileSeen = TRUE, !.fileOpen = TRUE]]
    /\ UNCHANGED <<videos, temp, triggers, page, subs>>
    /\ UNCHANGED <<pipelineVars, fnLog>>

\* file 'end': fileData holds what busboy let through, at most limits.fileSize bytes
onFileEnd(u) ==
    /\ u \in Uploads
    /\ up[u].pc = "busboy"
    /\ up[u].fileOpen
    /\ up' = [up EXCEPT ![u] =
          [up[u] EXCEPT !.fileOpen = FALSE, !.fileData = TRUE,
                    !.buffer = Slice(up[u].body.bytes, 0, MaxFileSize)]]
    /\ UNCHANGED <<videos, temp, triggers, page, subs>>
    /\ UNCHANGED <<pipelineVars, fnLog>>

\* file 'error'
onFileError(u) ==
    /\ u \in Uploads
    /\ up[u].pc = "busboy"
    /\ up[u].fileOpen
    /\ up' = [up EXCEPT ![u] =
          [Reply400(up[u]) EXCEPT !.hasError = TRUE, !.fileOpen = FALSE]]
    /\ UNCHANGED <<videos, temp, triggers, page, subs>>
    /\ UNCHANGED <<pipelineVars, fnLog>>

\* busboy 'field' for the email field
onField(u) ==
    /\ u \in Uploads
    /\ up[u].pc = "busboy"
    /\ up[u].body.email # <<>>
    /\ ~up[u].fieldSeen
    /\ up' = [up EXCEPT ![u] = [up[u] EXCEPT !.fieldSeen = TRUE, !.email = up[u].body.email]]
    /\ UNCHANGED <<videos, temp, triggers, page, subs>>
    /\ UNCHANGED <<pipelineVars, fnLog>>

\* busboy 'finish': every part has been read
onFinish(u) ==
    /\ u \in Uploads
    /\ up[u].pc = "busboy"
    /\ ~up[u].fileOpen
    /\ up[u].body.fieldname # "" => up[u].fileSeen
    /\ up[u].body.email # <<>> => up[u].fieldSeen
    /\ up' = [up EXCEPT ![u] =
          IF up[u].hasError THEN [up[u] EXCEPT !.pc = "done"]
          ELSE IF ~up[u].fileData THEN Answer(up[u], 400, FALSE, FALSE)
          ELSE IF ~ValidEmail(up[u].email) THEN Answer(up[u], 400, FALSE, FALSE)
          ELSE [up[u] EXCEPT !.pc = "save"]]
    /\ UNCHANGED <<videos, temp, triggers, page, subs>>
    /\ UNCHANGED <<pipelineVars, fnLog>>

\* busboy 'error': the form is malformed or ends early, at any point of the parse
onError(u) ==
    /\ u \in Uploads
    /\ up[u].pc = "busboy"
    /\ up' = [up EXCEPT ![u] = [Reply400(up[u]) EXCEPT !.pc = "done", !.fileOpen = FALSE]]
    /\ UNCHANGED <<videos, temp, triggers, page, subs>>
    /\ UNCHANGED <<pipelineVars, fnLog>>

\* the handlers of the upload service
Serve(u) ==
    \/ chunkSaveDone(u)
    \/ chunkDownloadDone(u)
    \/ uploadSaveDone(u)
    \/ uploadMakePublicDone(u)
    \/ chunkDeleteDone(u)
    \/ uploadFetchDone(u)
    \/ onFile(u)
    \/ onFileEnd(u)
    \/ onFileError(u)
    \/ onField(u)
    \/ onFinish(u)
    \/ onError(u)

(***************************************************************************)
(* The upload service under requests of any caller.                        *)
(***************************************************************************)
MaxCallerUploads == 2

CallerJsonBodies ==
    {Base64Body(d, t, e) :
        d \in {<<>>, ToBase64(UserFiles[1].bytes), ToBase64(UserFiles[3].bytes)},
        t \in {"video/mp4", "text/plain"},
        e \in {<<"a", "@", "b">>, <<"a", "@", "b", ".", "c">>}}
    \cup {ChunkBody(1, i, 2, ToBase64(UserFiles[2].bytes), "video/mp4",
                    <<"a", "@", "b", ".", "c">>) : i \in 0..1}

CallerMultipartBodies ==
    {MultipartBody(f, t, UserFiles[k].bytes, e) :
        f \in {"video", "file"}, t \in {"video/mp4", "text/plain"}, k \in {1, 3},
        e \in {<<>>, <<"a", "@", "b", ".", "c">>}}
    \cup {MultipartBody("", "", <<>>, <<"a", "@", "b", ".", "c">>)}

\* a POST with Content-Type application/json
postJson ==
    /\ Len(up) < MaxCallerUploads
    /\ \E b \in CallerJsonBodies : up' = Append(up, StartUpload("json", 0, b))
    /\ UNCHANGED <<videos, temp, triggers, page, subs>>
    /\ UNCHANGED <<pipelineVars, fnLog>>

\* a POST with Content-Type multipart/form-data
postMultipart ==
    /\ Len(up) < MaxCallerUploads
    /\ \E b \in CallerMultipartBodies : up' = Append(up, StartUpload("multipart", 0, b))
    /\ UNCHANGED <<videos, temp, triggers, page, subs>>
    /\ UNCHANGED <<pipelineVars, fnLog>>

NextUpload ==
    \/ postJson
    \/ postMultipart
    \/ \E u \in 1..MaxCallerUploads : Serve(u)

SpecUpload == Init /\ [][NextUpload]_vars

(***************************************************************************)
(* The upload page (web-upload/upload.js) in front of the upload service.  *)
(* FileReader settles between two events of the page without any of them  *)
(* seeing it, so each step below runs from one response to the next fetch. *)
(***************************************************************************)
MaxUploads == 3
MaxSubmissions == 1

Runs == 1..Len(subs)

\* response.ok
Ok(response) == response.status >= 200 /\ response.status <= 299

\* Math.ceil(this.selectedFile.size / CHUNK_SIZE)
TotalChunks(size) == (size + ChunkSize - 1) \div ChunkSize

\* this.selectedFile.slice(start, end) for chunk i of file k
ChunkOf(k, i) ==
    Slice(UserFiles[k].bytes, i * ChunkSize,
          Min(i * ChunkSize + ChunkSize, Len(UserFiles[k].bytes)))

\* updateSubmitButton()
updateSubmitButton(p) ==
    [p EXCEPT !.disabled = ~(p.selectedFile # 0 /\ ValidEmail(p.emailField))]

\* hideProgress()
hideProgress(p) == [p EXCEPT !.disabled = FALSE]

\* fetch(this.uploadUrl, ...) of run s is under way: the request is at the service
Fetch(s, kind, b, run) ==
    /\ Len(up) < MaxUploads
    /\ up' = Append(up, StartUpload(kind, s, b))
    /\ subs' = IF s > Len(subs) THEN Append(subs, [run EXCEPT !.req = Len(up) + 1])
                ELSE [subs EXCEPT ![s] = [run EXCEPT !.req = Len(up) + 1]]

\* one turn of the loop of uploadLargeFile, up to its fetch: the chunk is cut from
\* the file that is selected now
SendChunk(s, run) ==
    LET k == page.selectedFile IN
    Fetch(s, "json",
          ChunkBody(run.uploadId, run.chunkIndex, run.totalChunks,
                    fileToBase64(UserFiles[k].type, ChunkOf(k, run.chunkIndex)),
                    UserFiles[k].type, run.email),
          [run EXCEPT !.pc = "awaitChunk"])

\* handleFileSelect(file): a 'change' of the file input, or a drop
handleFileSelect ==
    /\ \E k \in 1..Len(UserFiles) :
          page' = IF ~IsVideoType(UserFiles[k].type) THEN page
                  ELSE IF Len(UserFiles[k].bytes) > MaxFileSize THEN page
                  ELSE updateSubmitButton([page EXCEPT !.selectedFile = k])
    /\ UNCHANGED <<up, videos, temp, triggers, subs>>
    /\ UNCHANGED <<pipelineVars, fnLog>>

\* 'input' of the email field
emailInput ==
    /\ \E e \in EmailValues : page' = updateSubmitButton([page EXCEPT !.emailField = e])
    /\ UNCHANGED <<up, videos, temp, triggers, subs>>
    /\ UNCHANGED <<pipelineVars, fnLog>>

\* 'click' of the submit button, which a disabled button does not deliver:
\* uploadVideo() up to its first fetch; run.file is the file selected at the click
uploadVideo ==
    /\ ~page.disabled
    /\ Len(subs) < MaxSubmissions
    /\ IF page.selectedFile = 0 THEN UNCHANGED <<page, up, subs>>
       ELSE LET s == Len(subs) + 1
                k == page.selectedFile
                run == [pc |-> "start", uploadId |-> s, chunkIndex |-> 0,
                        totalChunks |-> TotalChunks(Len(UserFiles[k].bytes)),
                        email |-> page.emailField, req |-> 0, file |-> k]
            IN  /\ page' = [page EXCEPT !.disabled = TRUE]
                /\ IF Len(UserFiles[k].bytes) > LargeFileThreshold
                   THEN SendChunk(s, run)
                   ELSE Fetch(s, "json",
                              Base64Body(fileToBase64(UserFiles[k].type, UserFiles[k].bytes),
                                         UserFiles[k].type, run.email),
                              [run EXCEPT !.pc = "awaitBase64"])
    /\ UNCHANGED <<videos, temp, triggers>>
    /\ UNCHANGED <<pipelineVars, fnLog>>

\* an upload of run s is over: with an error (alert, hideProgress) or with success
Failed(s) ==
    /\ subs' = [subs EXCEPT ![s].pc = "failed"]
    /\ page' = hideProgress(page)
    /\ UNCHANGED up

Succeeded(s) ==
    /\ subs' = [subs EXCEPT ![s].pc = "succeeded"]
    /\ UNCHANGED <<page, up>>

\* the response of the base64 upload arrives
base64Response(s) ==
    /\ s \in Runs
    /\ subs[s].pc = "awaitBase64"
    /\ up[subs[s].req].sent # <<>>
    /\ LET response == up[subs[s].req].sent[1] IN
       IF Ok(response) /\ response.success THEN Succeeded(s) ELSE Failed(s)
    /\ UNCHANGED <<videos, temp, triggers>>
    /\ UNCHANGED <<pipelineVars, fnLog>>

\* controller.abort() after 30 seconds, or fetch rejects with 'Failed to fetch':
\* tryMultipartUpload(email, topic) up to its fetch
tryMultipartUpload(s) ==
    /\ s \in Runs
    /\ subs[s].pc = "awaitBase64"
    /\ LET k == page.selectedFile IN
       Fetch(s, "multipart",
             MultipartBody("video", UserFiles[k].type, UserFiles[k].bytes, subs[s].email),
             [subs[s] EXCEPT !.pc = "awaitMultipart"])
    /\ UNCHANGED <<videos, temp, triggers, page>>
    /\ UNCHANGED <<pipelineVars, fnLog>>

\* the response of the multipart upload arrives
multipartResponse(s) ==
    /\ s \in Runs
    /\ subs[s].pc = "awaitMultipart"
    /\ up[subs[s].req].sent # <<>>
    /\ LET response == up[subs[s].req].sent[1] IN
       IF Ok(response) /\ response.success THEN Succeeded(s) ELSE Failed(s)
    /\ UNCHANGED <<videos, temp, triggers>>
    /\ UNCHANGED <<pipelineVars, fnLog>>

\* the response of a chunk arrives: the loop of uploadLargeFile goes on
chunkResponse(s) ==
    /\ s \in Runs
    /\ subs[s].pc = "awaitChunk"
    /\ up[subs[s].req].sent # <<>>
    /\ LET response == up[subs[s].req].sent[1] IN
       IF ~Ok(response) THEN Failed(s)
       ELSE IF response.success /\ response.isLastChunk THEN Succeeded(s)
       ELSE IF subs[s].chunkIndex + 1 < subs[s].totalChunks
       THEN /\ SendChunk(s, [subs[s] EXCEPT !.chunkIndex = subs[s].chunkIndex + 1])
            /\ UNCHANGED page
       ELSE /\ subs' = [subs EXCEPT ![s].pc = "returned"]
            /\ UNCHANGED <<page, up>>
    /\ UNCHANGED <<videos, temp, triggers>>
    /\ UNCHANGED <<pipelineVars, fnLog>>

\* the fetch of a chunk or of the multipart form rejects
fetchRejects(s) ==
    /\ s \in Runs
    /\ subs[s].pc \in {"awaitChunk", "awaitMultipart"}
    /\ Failed(s)
    /\ UNCHANGED <<videos, temp, triggers>>
    /\ UNCHANGED <<pipelineVars, fnLog>>

NextPage ==
    \/ handleFileSelect
    \/ emailInput
    \/ uploadVideo
    \/ \E s \in 1..MaxSubmissions :
          \/ base64Response(s)
          \/ tryMultipartUpload(s)
          \/ multipartResponse(s)
          \/ chunkResponse(s)
          \/ fetchRejects(s)
    \/ \E u \in 1..MaxUploads : Serve(u)

SpecPage == Init /\ [][NextPage]_vars

(***************************************************************************)
(* Properties.                                                             *)
(***************************************************************************)
Running(r) == stageStarted[r] \ (stageDone[r] \cup {stageFailed[r]})

Answered(r, status) == Len(responses[r]) = 1 /\ responses[r][1].status = status

RequiredFields == {"videoUrl", "fileId", "userEmail"}

\* C1: every request whose body lacks videoUrl, fileId or userEmail (or holds a falsy
\* value for it) is answered with HTTP 400 and success:false.
C1_MissingFieldIs400 ==
    \A r \in Reqs :
        (pc[r] # "idle" /\ \E f \in RequiredFields : Falsy(body[r][f]))
            => /\ Answered(r, 400)
               /\ responses[r][1].success = FALSE

\* a request that lacks only userEmail has been rejected while another, valid one runs
C1_Witness ==
    \E r, q \in Reqs :
        /\ ~Falsy(body[r].videoUrl) /\ ~Falsy(body[r].fileId) /\ Falsy(body[r].userEmail)
        /\ Answered(r, 400)
        /\ InFlight(q)

\* C2: within one request the stages run in the order 1..7: a stage has started only
\* if every earlier stage has completed, a completed stage was started, and at most
\* one stage of the request is in progress at any time.
C2_StagesInOrder ==
    \A r \in Reqs :
        /\ \A s \in stageStarted[r] : \A t \in Transcribe..(s - 1) : t \in stageDone[r]
        /\ stageDone[r] \subseteq stageStarted[r]
        /\ Cardinality(Running(r)) <= 1

\* one request has run all seven stages while the other is in the middle of one
C2_Witness ==
    \E r, q \in Reqs :
        /\ stageDone[r] = Stages
        /\ Running(q) = {Captions}

StageMessage(s) ==
    CASE s = Transcribe -> "Transcription failed"
      [] s = Generate -> "AI response generation failed"
      [] s = Voice -> "Voice generation failed"
      [] s = Captions -> "Captions creation failed"
      [] s = Mux -> "Video combination failed"
      [] s = Publish -> "Final video upload failed"

\* C3: when one of the stages 1..6 fails, the request is answered 500 with
\* {success:false, error, details}, and details is the failing stage's message
\* followed by the diagnostic of the call that failed.
C3_StageFailureIs500 ==
    \A r \in Reqs :
        stageFailed[r] \in Transcribe..Publish
            => /\ Answered(r, 500)
               /\ responses[r][1].success = FALSE
               /\ responses[r][1].error = "Video processing failed"
               /\ responses[r][1].details[1] = StageMessage(stageFailed[r])
               /\ responses[r][1].details[Len(responses[r][1].details)] = diag[r]

\* two requests failed in different stages with different diagnostics
C3_Witness ==
    \E r, q \in Reqs :
        /\ stageFailed[r] = Mux /\ diag[r] = "E1" /\ Answered(r, 500)
        /\ stageFailed[q] = Publish /\ diag[q] = "E2" /\ Answered(q, 500)

\* C4: once a stage of a request has failed, no later stage of it is started: nothing
\* is saved to the bucket and no notification is sent after a failure before publish.
C4_EarlyExit ==
    \A r \in Reqs :
        stageFailed[r] # 0
            => /\ stageStarted[r] \subseteq Transcribe..stageFailed[r]
               /\ pc[r] = "done"
               /\ Notify \notin stageStarted[r]
               /\ stageFailed[r] < Publish
                    => /\ calls[r]["save"] = 0
                       /\ \A o \in DOMAIN bucket : bucket[o].owner # r

\* a request failed in the caption stage and the other went on to publish
C4_Witness ==
    \E r, q \in Reqs :
        /\ stageFailed[r] = Captions
        /\ stageStarted[r] = Transcribe..Captions
        /\ Publish \in stageDone[q]

\* C5: no external call is invoked more than once in a request; a failed save is
\* answered 500 without a second save.
C5_NoRetry ==
    \A r \in Reqs :
        /\ \A c \in ExternalCalls : calls[r][c] <= 1
        /\ (stageFailed[r] = Publish /\ calls[r]["save"] >= 1 /\ calls[r]["makePublic"] = 0)
              => Answered(r, 500)

\* a save failed: the request is over, nothing of it is in the bucket
C5_Witness ==
    \E r \in Reqs :
        /\ stageFailed[r] = Publish
        /\ calls[r]["save"] = 1
        /\ calls[r]["makePublic"] = 0
        /\ \A o \in DOMAIN bucket : bucket[o].owner # r

\* C6: when stages 1..6 all succeeded the request is answered 200 with success:true,
\* whether or not the notification step failed.
C6_NotifierNeverFails ==
    \A r \in Reqs :
        (pc[r] = "done" /\ Transcribe..Publish \subseteq stageDone[r])
            => /\ Answered(r, 200)
               /\ responses[r][1].success = TRUE

\* the notification failed and the request was answered 200
C6_Witness ==
    \E r \in Reqs : notifyFailed[r] /\ Answered(r, 200)

\* C7: a response is sent only when no stage of the request is running, and a 200 only
\* after all seven stages have completed, save and makePublic among them.
C7_AnsweredWhenOver ==
    \A r \in Reqs :
        responses[r] # <<>>
            => /\ Running(r) = {}
               /\ pc[r] = "done"
               /\ responses[r][1].status = 200
                    => /\ stageDone[r] = Stages
                       /\ calls[r]["save"] = 1
                       /\ calls[r]["makePublic"] = 1

\* a 200 has been sent while the other request is still in its pipeline
C7_Witness ==
    \E r, q \in Reqs : Answered(r, 200) /\ InFlight(q) /\ Running(q) # {}

\* C8: two in-flight requests with different fileId values never overwrite or delete a
\* temp file of each other.
C8_DisjointTempFiles ==
    [][\A r1, r2 \in Reqs :
         (/\ r1 # r2
          /\ InFlight(r1) /\ InFlight(r2)
          /\ body[r1].fileId # body[r2].fileId
          /\ pc'[r2] # pc[r2])
            => \A f \in DOMAIN fs :
                 fs[f] = r1 => (f \in DOMAIN fs' /\ fs'[f] = r1)]_vars

Locals(r) == <<body[r], transcription[r], aiResponse[r], sentences[r],
               finalVideoUrl[r], responses[r]>>

\* C9 as stated: no stage of one job starts between two stages of another job.
C9_NoInterleaving ==
    [][\A r \in Reqs :
         (stageStarted'[r] # stageStarted[r] /\ stageStarted[r] # {})
            => lastStarter = r]_vars

\* C9 as amended: jobs interleave, but a step changes the handler-local data of the
\* one job whose handler runs and of no other job.
C9_NoCrossJobMutation ==
    [][\A r \in Reqs : pc'[r] = pc[r] => Locals(r)' = Locals(r)]_vars

\* both jobs are in flight, each holding its own transcription and its own response text
C9_Witness ==
    \E r, q \in Reqs :
        /\ r # q /\ InFlight(r) /\ InFlight(q)
        /\ transcription[r] # <<>> /\ transcription[q] # <<>>
        /\ Captions \in stageStarted[r] /\ Captions \in stageStarted[q]
        /\ aiResponse[r] # aiResponse[q]

\* C10: the sentences are the whitespace-trimmed non-empty fragments between runs of
\* '.', '!' and '?': "A. B! C?" yields <<"A", "B", "C">> and "" yields none.
C10_SentencesTrimmed ==
    \A r \in Reqs :
        Captions \in stageStarted[r]
            => /\ aiResponse[r] = <<"A", ".", " ", "B", "!", " ", "C", "?">>
                    => sentences[r] = << <<"A">>, <<"B">>, <<"C">> >>
               /\ aiResponse[r] = <<>> => sentences[r] = <<>>
               /\ \A i \in 1..Len(sentences[r]) :
                    /\ sentences[r][i] # <<>>
                    /\ sentences[r][i] = Trim(sentences[r][i])
                    /\ \A j \in 1..Len(sentences[r][i]) :
                         sentences[r][i][j] \notin Terminators

\* C11: the render request shows sentence i (0-based) of N exactly from 3i to 3i + 2.5
\* seconds, the windows of different sentences do not overlap, and the requested
\* duration is 3 * N seconds (times in tenths of a second).
C11_CaptionTiming ==
    \A r \in Reqs :
        calls[r]["render"] >= 1
            => LET req == renderRequest[r]
                   N == Len(sentences[r])
               IN /\ Len(req.filters) = N
                  /\ req.duration = 30 * N
                  /\ \A i \in 1..N :
                       /\ req.filters[i].from = 30 * (i - 1)
                       /\ req.filters[i].to = 30 * (i - 1) + 25
                  /\ \A i, j \in 1..N :
                       i < j => req.filters[i].to < req.filters[j].from

\* a render request for three sentences has been issued
C11_Witness ==
    \E r \in Reqs :
        /\ calls[r]["render"] = 1
        /\ Len(sentences[r]) = 3
        /\ Len(renderRequest[r].filters) = 3

\* C12: a render request issued to the transcoder never has duration 0: a text without
\* sentences is rejected or rendered as a clip of at least one frame.
C12_NoZeroLengthRender ==
    \A r \in Reqs : calls[r]["render"] >= 1 => renderRequest[r].duration > 0


\* C13: the muxed video lasts as long as the shorter of its two inputs: for an
\* N-sentence response, min(3 * N seconds, duration of the synthesized audio).
C13_MuxShortest ==
    \A r \in Reqs :
        LET final == File(body[r].fileId, "_final.mp4")
            video == File(body[r].fileId, "_captions.mp4")
            audio == File(body[r].fileId, "_response.wav")
        IN (/\ pc[r] = "unlinkCaptions"
            /\ Len(sentences[r]) >= 1
            /\ final \in DOMAIN fs /\ fs[final] = r
            /\ video \in DOMAIN fs /\ fs[video] = r
            /\ audio \in DOMAIN fs /\ fs[audio] = r)
              => /\ media[final] = Min(media[video], media[audio])
                 /\ media[final] = Min(30 * Len(sentences[r]), 600)

OwnFiles(r) == {f \in DOMAIN fs : fs[f] = r}

\* the suffix of a temp file: the last token of its last component
KindOf(f) == f[Len(f)][Len(f[Len(f)])]

\* C14: with its deletions succeeding, a request keeps no temp file it wrote once the
\* file is consumed: no input or audio after transcription, no caption video or
\* synthesized audio after the mux, no final video after the upload, none at a 200.
C14_ArtifactsDeleted ==
    \A r \in Reqs :
        unlinkFailures[r] = 0
            => /\ Transcribe \in stageDone[r]
                    => \A f \in OwnFiles(r) : KindOf(f) \notin {"_input.mp4", "_audio.wav"}
               /\ Mux \in stageDone[r]
                    => \A f \in OwnFiles(r) : KindOf(f) \notin {"_captions.mp4", "_response.wav"}
               /\ Publish \in stageDone[r]
                    => \A f \in OwnFiles(r) : KindOf(f) # "_final.mp4"
               /\ (pc[r] = "done" /\ Answered(r, 200)) => OwnFiles(r) = {}

\* a request wrote all five temp files, was answered 200 and left none behind, while
\* files of the other request exist
C14_Witness ==
    \E r, q \in Reqs :
        /\ Answered(r, 200) /\ unlinkFailures[r] = 0 /\ OwnFiles(r) = {}
        /\ \A c \in {"curl", "extract", "tts", "render", "mux"} : calls[r][c] = 1
        /\ OwnFiles(q) # {}

UnlinkAwaits == {"unlinkInput", "unlinkAudio", "unlinkCaptions", "unlinkResponse",
                 "unlinkFinal"}

AfterUnlink(at) ==
    CASE at = "unlinkInput" -> "unlinkAudio"
      [] at = "unlinkAudio" -> "generate"
      [] at = "unlinkCaptions" -> "unlinkResponse"
      [] at = "unlinkResponse" -> "readFile"
      [] at = "unlinkFinal" -> "notify"

\* C15: a deletion that fails is ignored: whether it succeeds or fails, the handler
\* goes on to the same next step, no stage fails and no response is sent because of it.
\* (That a failed job leaves temp files behind is what the witness reaches.)
C15_CleanupBestEffort ==
    [][\A r \in Reqs :
         (pc[r] \in UnlinkAwaits /\ pc'[r] # pc[r])
            => /\ pc'[r] = AfterUnlink(pc[r])
               /\ responses'[r] = responses[r]
               /\ stageFailed'[r] = stageFailed[r]]_vars

\* a request whose deletion failed was answered 200 and its file is still there; the
\* other request failed in the mux and left its caption video and audio behind
C15_Witness ==
    \E r, q \in Reqs :
        /\ unlinkFailures[r] >= 1 /\ Answered(r, 200) /\ OwnFiles(r) # {}
        /\ stageFailed[q] = Mux
        /\ {KindOf(f) : f \in OwnFiles(q)} = {"_captions.mp4", "_response.wav"}

\* needle occurs in hay as a run of consecutive characters
Contains(hay, needle) ==
    \E i \in 0..(Len(hay) - Len(needle)) : SubSeq(hay, i + 1, i + Len(needle)) = needle

CallsOf(fn) == {i \in 1..Len(fnLog) : fnLog[i].fn = fn}

\* C17: the prompt built for a transcript and a topic contains the transcript and, when a
\* topic is given, the topic, character for character; two calls with the same transcript
\* and topic build the same prompt.
C17_PromptDeterministic ==
    /\ \A i \in CallsOf("generateAIResponse") :
          LET t == fnLog[i].args[1]
              topic == fnLog[i].args[2]
              prompt == fnLog[i].result
          IN /\ Contains(prompt, t.v)
             /\ topic.t = "string" => Contains(prompt, topic.v)
             /\ topic.t = "string" /\ topic.v # <<>> =>
                    \E k \in 1..Len(prompt) :
                        /\ prompt[k] = "\"\n\nTopic: "
                        /\ SubSeq(prompt, k + 1, k + Len(topic.v)) = topic.v
    /\ \A i, j \in CallsOf("generateAIResponse") :
          fnLog[i].args = fnLog[j].args => fnLog[i].result = fnLog[j].result

\* two calls with the same transcript and the same two-word topic were made
C17_Witness ==
    /\ Len(fnLog) = 2
    /\ \A i \in 1..2 :
          /\ fnLog[i].fn = "generateAIResponse"
          /\ fnLog[i].args = <<Str(<<"a", "\"", "b">>), Str(<<"t", " ", "u">>)>>

\* C18: every single quote of a caption sentence is escaped, so that the text ffmpeg
\* reads from the drawtext filter is the sentence and the quoted argument ends where
\* the template closes it.
C18_QuoteEscaping ==
    \A i \in CallsOf("createCaptionsVideo") :
        LET sentence == fnLog[i].args[1]
            filter == fnLog[i].result
            args == FilterArgs(filter)
        IN  /\ args.next = Len(filter) - 2 + 1
            /\ TextOption(args.token) = sentence

\* preview is the first 200 characters of text followed by an ellipsis
IsPreview(preview, text) ==
    LET n == Min(Len(text), 200) IN
    /\ Len(preview) = n + 1
    /\ \A k \in 1..n : preview[k] = text[k]
    /\ preview[n + 1] = "..."

IsSuccessBody(b, fileId, url, t, ai) ==
    /\ b.status = 200
    /\ b.success = TRUE
    /\ b.fileId = fileId
    /\ b.finalVideoUrl = url
    /\ "processingTime" \in DOMAIN b /\ b.processingTime \in Nat
    /\ IsPreview(b.transcription, t)
    /\ IsPreview(b.aiResponse, ai)

\* C19: a 200 response carries success true, the fileId of the request, finalVideoUrl,
\* processingTime, and of the transcription and of the generated text the first 200
\* characters followed by an ellipsis, whatever their lengths.
C19_SuccessShape ==
    /\ \A i \in CallsOf("respond") :
          LET a == fnLog[i].args IN
          /\ IsSuccessBody(fnLog[i].result, a[1], a[2], a[4], a[5])
          /\ fnLog[i].result.processingTime = a[3]
    /\ \A r \in Reqs :
          Answered(r, 200) =>
              IsSuccessBody(responses[r][1], body[r].fileId, finalVideoUrl[r],
                            transcription[r], aiResponse[r])

\* a body was built from a 201-character transcription and a 199-character text
C19_Witness ==
    \E i \in CallsOf("respond") :
        /\ Len(fnLog[i].args[4]) = 201
        /\ Len(fnLog[i].args[5]) = 199
        /\ Len(fnLog[i].result.transcription) = 201
        /\ Len(fnLog[i].result.aiResponse) = 200

\* C20: a request that has arrived gets exactly one response, a 400, a 200 or a 500,
\* once every call it awaits has returned or failed; it never gets a second one.
C20_ExactlyOneResponse ==
    /\ [](\A r \in Reqs : /\ Len(responses[r]) <= 1
                           /\ \A k \in 1..Len(responses[r]) :
                                 responses[r][k].status \in {400, 200, 500})
    /\ [](\A r \in Reqs : pc[r] = "done" => Len(responses[r]) = 1)
    /\ [][\A r \in Reqs : Len(responses'[r]) >= Len(responses[r])]_vars
    /\ \A r \in Reqs : (pc[r] # "idle") ~> (Len(responses[r]) = 1)

\* both requests are over, one answered 200 after a failed deletion and one 500
C20_Witness ==
    \E r, q \in Reqs :
        /\ pc[r] = "done" /\ Answered(r, 200) /\ unlinkFailures[r] = 1
        /\ pc[q] = "done" /\ Answered(q, 500)

\* C16: a successful publish stores the video under responses/response_<fileId>.mp4 and
\* returns https://storage.googleapis.com/<bucket>/responses/response_<fileId>.mp4, which
\* is the finalVideoUrl of the 200 response.
C16_PublishedUrl ==
    \A r \in Reqs :
        LET id == TemplateString(body[r].fileId) IN
        /\ calls[r]["makePublic"] >= 1
              => (<<"responses/", "response_">> \o id \o <<".mp4">>) \in DOMAIN bucket
        /\ Publish \in stageDone[r]
              => finalVideoUrl[r] =
                    <<"https://storage.googleapis.com/", "ai-debate-uploads", "/",
                      "responses/", "response_">> \o id \o <<".mp4">>
        /\ Answered(r, 200) => responses[r][1].finalVideoUrl = finalVideoUrl[r]

\* the request with fileId "a" was answered 200 with .../responses/response_a.mp4
C16_Witness ==
    \E r \in Reqs :
        /\ body[r].fileId = Str(<<"a">>)
        /\ Answered(r, 200)
        /\ responses[r][1].finalVideoUrl =
              <<"https://storage.googleapis.com/", "ai-debate-uploads", "/",
                "responses/", "response_", "a", ".mp4">>
        /\ <<"responses/", "response_", "a", ".mp4">> \in DOMAIN bucket

\* the temp files request r reads at the await it is suspended at
Consumes(r) ==
    CASE pc[r] = "extract" -> {File(body[r].fileId, "_input.mp4")}
      [] pc[r] = "mux" -> {File(body[r].fileId, "_captions.mp4"),
                           File(body[r].fileId, "_response.wav")}
      [] pc[r] = "readFile" -> {File(body[r].fileId, "_final.mp4")}
      [] OTHER -> {}

\* C23: when the requests in flight carry the same fileId, a temp file a request is about
\* to consume still exists and was written by that request.
C23_ArtifactOwnership ==
    \A r \in Reqs :
        (\A q \in Reqs : InFlight(q) => body[q].fileId = body[r].fileId)
            => \A f \in Consumes(r) : Exists(f) /\ fs[f] = r

\* C24: a request that ended in 500 because publishing failed has left no object in the
\* bucket.
C24_PublishAllOrNothing ==
    \A r \in Reqs :
        Answered(r, 500) /\ stageFailed[r] = Publish
            => \A o \in DOMAIN bucket : bucket[o].owner # r

\* C25: a request answered 400 has started no stage, made no external call, written no
\* temp file and no object, and the step that answers 400 leaves /tmp and the bucket as
\* they were.
C25_ValidationFirst ==
    /\ [](\A r \in Reqs :
            Answered(r, 400)
                => /\ stageStarted[r] = {}
                   /\ \A c \in ExternalCalls : calls[r][c] = 0
                   /\ \A f \in DOMAIN fs : fs[f] # r
                   /\ \A o \in DOMAIN bucket : bucket[o].owner # r
                   /\ ~notifyFailed[r]
                   /\ transcription[r] = <<>> /\ aiResponse[r] = <<>>)
    /\ [][\A r \in Reqs :
            Len(responses[r]) = 0 /\ Answered(r, 400)'
                => fs' = fs /\ bucket' = bucket /\ media' = media]_vars

\* a request was answered 400 while the other one has a temp file and a stored object
C25_Witness ==
    \E r, q \in Reqs :
        /\ Answered(r, 400)
        /\ \E f \in DOMAIN fs : fs[f] = q
        /\ \E o \in DOMAIN bucket : bucket[o].owner = q

\* the stored video of upload request u is public
StoredPublic(u) == \E v \in DOMAIN videos : videos[v].fileId = u /\ videos[v].public

\* C21: once the video of an upload request has been saved and made public, the request
\* is answered 200 with success true and processingTriggered telling whether the trigger
\* succeeded, however the trigger call fails.
C21_TriggerNeverFailsUpload ==
    \A u \in Uploads :
        up[u].pc = "done" /\ StoredPublic(u)
            => /\ Len(up[u].sent) = 1
               /\ up[u].sent[1].status = 200
               /\ up[u].sent[1].success
               /\ up[u].sent[1].processingTriggered
                    = (\E t \in DOMAIN triggers : triggers[t].fileId = u /\ triggers[t].ok)

\* C22: no video above the size limit is stored under videos/ or handed to the pipeline.
C22_SizeLimit ==
    \A v \in DOMAIN videos : Len(videos[v].bytes) <= MaxFileSize

\* C28: the multipart handler answers a request at most once, whatever the order of the
\* busboy events.
C28_OneMultipartResponse ==
    \A u \in Uploads : up[u].kind = "multipart" => Len(up[u].sent) <= 1

InFlightRun(s) == subs[s].pc \in {"awaitBase64", "awaitMultipart", "awaitChunk"}

\* C26: an upload of the page in chunks: when the service starts combining, every chunk
\* temp/<uploadId>/chunk_i, 0 <= i < totalChunks, is stored, and the video it stores is
\* the file the user submitted, byte for byte.
C26_ChunkedUploadIsTheFile ==
    /\ \A u \in Uploads :
          up[u].sub # 0 /\ up[u].pc = "download"
              => \A i \in 0..(up[u].body.totalChunks - 1) : ChunkKey(up[u], i) \in DOMAIN temp
    /\ \A v \in DOMAIN videos :
          LET q == up[videos[v].fileId] IN
          q.sub # 0 /\ IsChunked(q)
              => videos[v].bytes = UserFiles[subs[q.sub].file].bytes

\* C27: one click of the submit button leaves at most one video under videos/ and at
\* most one processing request, fallback to the multipart upload included.
C27_OneSubmissionOneJob ==
    \A s \in Runs :
        /\ Cardinality({v \in DOMAIN videos : videos[v].sub = s}) <= 1
        /\ Cardinality({t \in DOMAIN triggers : triggers[t].sub = s}) <= 1

\* C29: the submit button is enabled only while a file is selected and the email field
\* holds a valid address, and it is disabled while an upload is under way.
C29_SubmitButton ==
    /\ ~page.disabled => page.selectedFile # 0 /\ ValidEmail(page.emailField)
    /\ \A s \in Runs : InFlightRun(s) => page.disabled

====
